---- MODULE Spec2Model ----
(***************************************************************************)
(* Model of pycstbox.webservices.wsapp: the AppServer service discovery,   *)
(* its start/stop lifecycle with the termination signal, its request       *)
(* logger, and the WSHandler request dispatch wrapper.                     *)
(*                                                                         *)
(* Strings are sequences of one-character strings, so that rstrip, lstrip  *)
(* and concatenation are computed as Python computes them.                 *)
(***************************************************************************)
EXTENDS Integers, Sequences, FiniteSets, TLC

VARIABLES
    fs,                 \* the services home: directory name -> what the scan finds there
    _app_url_base,      \* AppServer._app_url_base
    _services,          \* AppServer._services (None, or the cached list)
    _ioloop,            \* AppServer._ioloop (None, or the running loop)
    toplevel_handlers,  \* AppServer.toplevel_handlers (class attribute, a list)
    _handlers,          \* AppServer._handlers (None before the first start)
    lastDisc,           \* the last run of _discover_services, and the directory it saw
    lastRead,           \* outcome of the last read of the `services` property
    firstRead,          \* outcome of the first read that returned a list
    scans,              \* number of runs of _discover_services so far
    initCalls,          \* directory name -> number of invocations of its _init_ hook
    reads,              \* number of reads of the `services` property so far
    calls,              \* number of calls (property reads, start) so far
    pc,                 \* where the call to start stands ("idle": not in start)
    stop_requested,     \* the IOLoop singleton has a stop pending (IOLoop.stop())
    sigterm_handler,    \* signal.signal(SIGTERM, self._sigterm_handler) was called
    listens,            \* number of successful calls of _http_server.listen
    app_settings,       \* the settings the Application was built with (None before)
    custom_settings,    \* the argument of the last call to start
    sigs,               \* number of SIGTERM signals delivered so far
    termSeen,           \* the handler installed by the current start ran
    starts,             \* number of calls to start so far
    startError,         \* the exception the last call to start raised ("none")
    _muted_requests,    \* AppServer._muted_requests (class attribute, a list)
    flagOf,             \* URI -> disable_request_logging of the handler it routes to
    lastReq,            \* the last completed request: URI and final status
    lastLog,            \* what _log_request logged for it
    succeeded,          \* URIs of the successful requests completed before it
    nreq,               \* number of completed requests so far
    nsIn, nsOut,        \* route namespacing: inputs and effective URL
    req, resp           \* request dispatch: the handler's behaviour, the response

vars == <<fs, _app_url_base, _services, _ioloop, toplevel_handlers, _handlers,
          lastDisc, lastRead, firstRead, scans, initCalls, reads, calls,
          pc, stop_requested, sigterm_handler, listens, app_settings,
          custom_settings, sigs, termSeen, starts, startError,
          _muted_requests, flagOf, lastReq, lastLog, succeeded, nreq,
          nsIn, nsOut, req, resp>>

appVars == <<fs, _app_url_base, _services, _ioloop, toplevel_handlers, _handlers,
             lastDisc, lastRead, firstRead, scans, initCalls, reads, calls>>
startVars == <<pc, stop_requested, sigterm_handler, listens, app_settings,
               custom_settings, sigs, termSeen, starts, startError>>
logVars == <<_muted_requests, flagOf, lastReq, lastLog, succeeded, nreq>>
nsVars  == <<nsIn, nsOut>>
reqVars == <<req, resp>>

\* None, and a value that is not None: a Python reference that may be None.
None == [isNone |-> TRUE, val |-> <<>>]
Some(v) == [isNone |-> FALSE, val |-> v]

(***************************************************************************)
(* Bounds.                                                                 *)
(***************************************************************************)
MaxCalls == 2       \* accessor reads plus start calls in one behaviour
MaxBaseLen == 3     \* length of the application URL base
MaxRouteLen == 3    \* length of a plugin-local route pattern
MaxWrites == 1      \* chunks a verb method writes before it returns or raises
MaxSignals == 1     \* SIGTERM signals delivered in one behaviour
MaxRequests == 3    \* completed requests passed to the request logger

(***************************************************************************)
(* Strings.                                                                *)
(***************************************************************************)
SLASH == "/"

\* ord(): the byte order Python 2 compares str values by.
Ord(c) ==
    CASE c = "(" -> 40
      [] c = ")" -> 41
      [] c = "/" -> 47
      [] c = "_" -> 95
      [] c = "a" -> 97
      [] c = "d" -> 100
      [] c = "h" -> 104

MinOf(a, b) == IF a < b THEN a ELSE b

\* s < t on str values: lexicographic, a proper prefix is smaller.
StrLess(s, t) ==
    \E k \in 0..MinOf(Len(s), Len(t)) :
        /\ \A i \in 1..k : s[i] = t[i]
        /\ \/ (k = Len(s) /\ k < Len(t))
           \/ (k < Len(s) /\ k < Len(t) /\ Ord(s[k+1]) < Ord(t[k+1]))

RECURSIVE lstrip(_, _)
lstrip(s, c) == IF s # <<>> /\ Head(s) = c THEN lstrip(Tail(s), c) ELSE s

RECURSIVE rstrip(_, _)
rstrip(s, c) ==
    IF s # <<>> /\ s[Len(s)] = c THEN rstrip(SubSeq(s, 1, Len(s) - 1), c) ELSE s

\* re.compile on the patterns of the model: a pattern compiles unless its
\* parentheses are unbalanced.
RECURSIVE ParenScan(_, _)
ParenScan(p, depth) ==
    IF p = <<>> THEN depth = 0
    ELSE IF Head(p) = "(" THEN ParenScan(Tail(p), depth + 1)
    ELSE IF Head(p) = ")" THEN depth > 0 /\ ParenScan(Tail(p), depth - 1)
    ELSE ParenScan(Tail(p), depth)

re_compile_ok(p) == ParenScan(p, 0)

(***************************************************************************)
(* The services home directory.                                            *)
(***************************************************************************)
MANIFEST_FILE_NAME == "MANIFEST"
INIT_PY == "__init__.py"

\* The directory names of the model: "_d", "a" and "h".
DirNames == { <<"_", "d">>, <<"a">>, <<"h">> }

\* AppServer._services_cfg_defaults
_services_cfg_defaults == { <<"mapping", "handlers">> }

\* Dictionaries are sets of <<key, value>> pairs with no key twice.
\* dict_update(d, other) is d after d.update(other).
dict_update(d, other) ==
    other \cup { p \in d : \A q \in other : q[1] # p[1] }

\* A plugin that passes every step of the discovery: both marker files, a
\* manifest with the `service` section, the `label` key and a `settings`
\* section, an importable module with an _init_ hook that returns and a
\* route table of two valid routes. import_module either succeeds, raises
\* ImportError (no such module, or an import that fails inside it) or raises
\* another exception from the module's code (SyntaxError stands for these).
GoodEntry ==
    [ isdir      |-> TRUE,
      files      |-> {MANIFEST_FILE_NAME, INIT_PY},
      section    |-> TRUE,               \* the manifest has [service]
      hasLabel   |-> TRUE,               \* ... and the key `label`
      settings   |-> Some({<<"k", "v">>}), \* the [settings] section, None without it
      imports    |-> "ok",               \* import_module: "ok", or the exception class
      init       |-> "returns",          \* the module's _init_ attribute
      hasMapping |-> TRUE,               \* the module has the route table attribute
      mapping    |-> << << <<"/", "a">>, "HandlerA" >>,
                        << <<"h">>,      "HandlerB" >> >> ]

\* The route table whose second pattern does not compile.
BadMapping == << << <<"/", "a">>, "HandlerA" >>, << <<"/", "(">>, "HandlerB" >> >>

\* What the _init_ attribute of a module can be: absent, present but not
\* callable, a function that returns, or a function that raises an exception
\* of the named class (ValueError stands for every class that is neither
\* ImportError nor AttributeError nor one of their subclasses).
InitKinds == {"absent", "notcallable", "returns", "ValueError", "ImportError", "AttributeError"}
InitRaises(k) == k \in {"ValueError", "ImportError", "AttributeError"}

\* The directory entries of the model: GoodEntry, and GoodEntry with one step
\* of the discovery made to fail (plus the hooks that raise in a module that
\* has no route table).
EntryCases ==
    { GoodEntry,
      [GoodEntry EXCEPT !.isdir = FALSE],
      [GoodEntry EXCEPT !.files = {INIT_PY}],
      [GoodEntry EXCEPT !.files = {MANIFEST_FILE_NAME, "README"}],
      [GoodEntry EXCEPT !.section = FALSE, !.hasLabel = FALSE],
      [GoodEntry EXCEPT !.hasLabel = FALSE],
      [GoodEntry EXCEPT !.settings = None],
      [GoodEntry EXCEPT !.imports = "ImportError"],
      [GoodEntry EXCEPT !.imports = "SyntaxError"],
      [GoodEntry EXCEPT !.hasMapping = FALSE],
      [GoodEntry EXCEPT !.mapping = BadMapping] }
    \cup { [GoodEntry EXCEPT !.init = k] : k \in InitKinds }
    \cup { [GoodEntry EXCEPT !.init = "ValueError", !.hasMapping = FALSE] }

(***************************************************************************)
(* AppServer._discover_services                                            *)
(***************************************************************************)
\* sorted(S) with reverse=True: the mutant of sorted.
RECURSIVE sorted_reversed(_)
sorted_reversed(S) ==
    IF S = {} THEN <<>>
    ELSE LET m == CHOOSE x \in S : \A y \in S \ {x} : StrLess(y, x)
         IN  <<m>> \o sorted_reversed(S \ {m})

\* sorted(): the names in ascending order.
RECURSIVE sorted(_)
sorted(S) ==
    IF S = {} THEN <<>>
    ELSE LET m == CHOOSE x \in S : \A y \in S \ {x} : StrLess(x, y)
         IN  <<m>> \o sorted(S \ {m})

\* [d for d in os.listdir(home) if os.path.isdir(os.path.join(home, d))]
subdirs(fsys) == { d \in DOMAIN fsys : fsys[d].isdir }

\* The marker test with only the manifest required: the mutant of marker_ok.
marker_ok_manifest_only(files) == MANIFEST_FILE_NAME \in files

\* marker_files.issubset(os.listdir(service_path))
marker_ok(files) == {MANIFEST_FILE_NAME, INIT_PY} \subseteq files

\* The URL built without the name of the service: a mutant of effective_url.
effective_url_no_name(app_url_base, service_name, pattern) ==
    rstrip(app_url_base, SLASH) \o <<SLASH>> \o lstrip(pattern, SLASH)

\* The URL built with at most one leading '/' stripped from the local
\* pattern: a mutant of effective_url.
effective_url_strip_one(app_url_base, service_name, pattern) ==
    rstrip(app_url_base, SLASH) \o <<SLASH>> \o service_name \o <<SLASH>>
        \o (IF pattern # <<>> /\ Head(pattern) = SLASH THEN Tail(pattern) ELSE pattern)

\* The URL built without stripping the local pattern: the mutant of effective_url.
effective_url_nostrip(app_url_base, service_name, pattern) ==
    rstrip(app_url_base, SLASH) \o <<SLASH>> \o service_name \o <<SLASH>> \o pattern

\* url_base = "%s/%s/" % (self._app_url_base.rstrip('/'), service_name)
\* effective_url = url_base + rule[0].lstrip('/')
effective_url(app_url_base, service_name, pattern) ==
    rstrip(app_url_base, SLASH) \o <<SLASH>> \o service_name \o <<SLASH>>
        \o lstrip(pattern, SLASH)

\* The loop that drops a rule that does not compile and keeps the others: the
\* mutant of expand_rules.
RECURSIVE expand_rules_lenient(_, _, _, _)
expand_rules_lenient(app_url_base, service_name, mapping, handlers) ==
    IF mapping = <<>> THEN [ok |-> TRUE, handlers |-> handlers]
    ELSE LET rule == Head(mapping)
             url  == effective_url(app_url_base, service_name, rule[1])
         IN  expand_rules_lenient(app_url_base, service_name, Tail(mapping),
                 IF re_compile_ok(url) THEN Append(handlers, <<url, rule[2]>>)
                 ELSE handlers)

\* for rule in mapping: ... the loop stops by raising Exception at the first
\* effective URL that re.compile rejects (ok = FALSE), and otherwise ends with
\* the namespaced rules.
RECURSIVE expand_rules(_, _, _, _)
expand_rules(app_url_base, service_name, mapping, handlers) ==
    IF mapping = <<>> THEN [ok |-> TRUE, handlers |-> handlers]
    ELSE LET rule == Head(mapping)
             url  == effective_url(app_url_base, service_name, rule[1])
         IN  IF ~ re_compile_ok(url) THEN [ok |-> FALSE, handlers |-> handlers]
             ELSE expand_rules(app_url_base, service_name, Tail(mapping),
                               Append(handlers, <<url, rule[2]>>))

\* ServiceDescriptor(name, label, handlers)
ServiceDescriptor(name, label, handlers) ==
    [name |-> name, label |-> label, handlers |-> handlers]

\* The first except clause widened to nothing: the mutant of is_load_error.
is_load_error_never(kind) == FALSE

\* except (ImportError, AttributeError): the exception classes that are re-raised.
is_load_error(kind) == kind \in {"ImportError", "AttributeError"}

\* The state of one run of the scan: `error` is "none" while the loop runs and
\* the class of the exception that left it otherwise.
NewScan ==
    [ error     |-> "none",   \* class of the exception that propagated
      at        |-> <<>>,     \* the directory it propagated from
      services  |-> <<>>,     \* the local list `services`
      analysed  |-> <<>>,     \* directories the loop body was entered for
      discarded |-> {},       \* directories without the marker files
      skipped   |-> {},       \* directories left by the `except Exception` clause
      logged    |-> {},       \* directories _logger.exception was called for
      inits     |-> <<>> ]    \* _init_ invocations: <<directory, settings>>

\* An exception that leaves _discover_services from the directory `name`.
Propagate(acc, kind, name) == [acc EXCEPT !.error = kind, !.at = name]

\* An exception raised inside the try block: re-raised after logging when it is
\* an ImportError or an AttributeError, logged and swallowed otherwise.
Except(acc, kind, name) ==
    IF is_load_error(kind)
    THEN Propagate([acc EXCEPT !.logged = @ \cup {name}], kind, name)
    ELSE [acc EXCEPT !.logged = @ \cup {name}, !.skipped = @ \cup {name}]

\* dict(mf.items('settings')): the section's entries over the parser's
\* defaults, or None when the manifest has no such section.
init_settings(e) ==
    IF e.settings.isNone THEN None
    ELSE Some(dict_update(_services_cfg_defaults, e.settings.val))

\* The hook test without callable(): the mutant of init_invoked.
init_invoked_if_present(init) == init # "absent"

\* if hasattr(module, '_init_'): ... if callable(init_func):
init_invoked(init) == init \notin {"absent", "notcallable"}

\* The body of the try block for one directory.
LoadService(e, app_url_base, name, acc) ==
    IF e.imports # "ok" THEN Except(acc, e.imports, name)
    ELSE
    LET invoked == init_invoked(e.init)
        a2 == IF invoked
              THEN [acc EXCEPT !.inits = Append(@, <<name, init_settings(e)>>)]
              ELSE acc
    IN  IF invoked /\ InitRaises(e.init) THEN Except(a2, e.init, name)
        ELSE IF ~ e.hasMapping THEN Except(a2, "AttributeError", name)
        ELSE LET x == expand_rules(app_url_base, name, e.mapping, <<>>)
             IN  IF ~ x.ok THEN Except(a2, "Exception", name)
                 ELSE [a2 EXCEPT !.services =
                          Append(@, ServiceDescriptor(name, "label", x.handlers))]

\* The loop body for one directory: marker test, manifest, then the try block.
\* mf.get raises NoSectionError or NoOptionError before the try statement.
ProcessDir(fsys, app_url_base, name, acc) ==
    LET e  == fsys[name]
        a1 == [acc EXCEPT !.analysed = Append(@, name)]
    IN  IF ~ marker_ok(e.files) THEN [a1 EXCEPT !.discarded = @ \cup {name}]
        ELSE IF ~ e.section THEN Propagate(a1, "NoSectionError", name)
        ELSE IF ~ e.hasLabel THEN Propagate(a1, "NoOptionError", name)
        ELSE LoadService(e, app_url_base, name, a1)

RECURSIVE ScanLoop(_, _, _, _)
ScanLoop(fsys, app_url_base, names, acc) ==
    IF names = <<>> \/ acc.error # "none" THEN acc
    ELSE ScanLoop(fsys, app_url_base, Tail(names),
                  ProcessDir(fsys, app_url_base, Head(names), acc))

\* _discover_services(): the run's record; it returns .services when .error is
\* "none" and raises .error otherwise.
_discover_services(fsys, app_url_base) ==
    ScanLoop(fsys, app_url_base, sorted(subdirs(fsys)), NewScan)

(***************************************************************************)
(* AppServer: the `services` property, start and the end of the loop.      *)
(***************************************************************************)
DefaultUrlBase == <<"/", "a", "/">>      \* url_base="/api/", with "api" as "a"

\* AppServer.fallback_handlers
fallback_handlers == << << <<"/", ".", "*">>, "InvalidRequest" >> >>

\* The cache test that never hits: the mutant of cache_empty.
cache_empty_always(services) == TRUE

\* if self._services is None
cache_empty(services) == services.isNone

\* The read that caches the descriptors built before the scan raised: the
\* mutant of _get_services.
_get_services_caches_partial ==
    IF cache_empty(_services)
    THEN LET d == _discover_services(fs, _app_url_base)
         IN  [ ran |-> TRUE, disc |-> d, raised |-> d.error # "none",
               services |-> Some(d.services) ]
    ELSE [ ran |-> FALSE, disc |-> NewScan, raised |-> FALSE, services |-> _services ]

\* _get_services(): what one read of the property does. `ran` tells whether
\* _discover_services was run, `disc` is that run, `raised` whether the read
\* raised, `services` the value of self._services after the read.
_get_services ==
    IF cache_empty(_services)
    THEN LET d == _discover_services(fs, _app_url_base)
         IN  [ ran |-> TRUE, disc |-> d, raised |-> d.error # "none",
               services |-> IF d.error = "none" THEN Some(d.services) ELSE _services ]
    ELSE [ ran |-> FALSE, disc |-> NewScan, raised |-> FALSE, services |-> _services ]

\* The number of entries of `inits` for the directory n.
RECURSIVE CountInits(_, _)
CountInits(inits, n) ==
    IF inits = <<>> THEN 0
    ELSE (IF Head(inits)[1] = n THEN 1 ELSE 0) + CountInits(Tail(inits), n)

\* The effect of one read of the property on the server and on the history
\* variables.
Read(g) ==
    /\ _services' = g.services
    /\ scans' = IF g.ran THEN scans + 1 ELSE scans
    /\ lastDisc' = IF g.ran THEN Some([run |-> g.disc, fsys |-> fs]) ELSE lastDisc
    /\ initCalls' = [n \in DirNames |-> initCalls[n] + CountInits(g.disc.inits, n)]
    /\ lastRead' = IF g.raised THEN [raised |-> TRUE, list |-> <<>>]
                   ELSE [raised |-> FALSE, list |-> g.services.val]
    /\ firstRead' = IF firstRead.isNone /\ ~ g.raised THEN Some(g.services.val)
                    ELSE firstRead
    /\ reads' = reads + 1
    /\ calls' = calls + 1

\* A read of AppServer.services by a caller other than start: before start is
\* called, after it has returned, or from a callback of the running loop.
ReadServices ==
    /\ calls < MaxCalls
    /\ pc \in {"idle", "running"}
    /\ Read(_get_services)
    /\ UNCHANGED <<fs, _app_url_base, _ioloop, toplevel_handlers, _handlers>>
    /\ UNCHANGED <<startVars, logVars, nsVars, reqVars>>

\* handlers.extend(service.handlers) for each service, in order.
RECURSIVE extend_all(_, _)
extend_all(handlers, services) ==
    IF services = <<>> THEN handlers
    ELSE extend_all(handlers \o Head(services).handlers, Tail(services))

\* _setup_handlers(services): the list it returns, which is the list object
\* toplevel_handlers itself, extended in place.
_setup_handlers(services) ==
    extend_all(toplevel_handlers, services) \o fallback_handlers

\* The guard that never holds: the mutant of already_started.
already_started_never(ioloop) == FALSE

\* if self._ioloop is not None: raise RuntimeError('server already started')
already_started(ioloop) == ~ ioloop.isNone

\* self._debug, as the constructor sets it by default (debug=False).
_debug == "False"

\* AppServer._log_request, as the value of a setting.
LOG_REQUEST == "_log_request"

\* The dictionary d after d[key] = value.
dict_set(d, key, value) == dict_update(d, { <<key, value>> })

\* The settings built with the server's values written last: the mutant of
\* start_settings.
start_settings_server_wins(cs) ==
    dict_set(dict_update(cs, { <<"debug", _debug>> }), "log_function", LOG_REQUEST)

\* settings = {'debug': self._debug}; settings.update(custom_settings) if
\* custom_settings is not empty; then, after the route table is assembled,
\* settings['log_function'] = self._log_request.
start_settings(cs) ==
    dict_set(IF cs # {} THEN dict_update({ <<"debug", _debug>> }, cs)
             ELSE { <<"debug", _debug>> },
             "log_function", LOG_REQUEST)

\* What callers pass as custom_settings: a dictionary over these keys, each
\* with a value of the caller ({} also stands for None). The launcher
\* websvcd.py passes {}.
CustomKeys == {"debug", "log_function", "gzip"}
CustomSettings == SUBSET { <<k, "custom">> : k \in CustomKeys }
LauncherSettings == {}

\* start() on a server whose loop is recorded: RuntimeError, nothing done.
\* The caller is a callback of the running loop.
StartAlreadyStarted ==
    /\ calls < MaxCalls
    /\ pc \in {"idle", "running"}
    /\ already_started(_ioloop)
    /\ calls' = calls + 1
    /\ starts' = starts + 1
    /\ startError' = "RuntimeError"
    /\ UNCHANGED <<fs, _app_url_base, _services, _ioloop, toplevel_handlers, _handlers,
                   lastDisc, lastRead, firstRead, scans, initCalls, reads>>
    /\ UNCHANGED <<pc, stop_requested, sigterm_handler, listens, app_settings,
                   custom_settings, sigs, termSeen>>
    /\ UNCHANGED <<logVars, nsVars, reqVars>>

\* start(custom_settings) from its call to the installation of the SIGTERM
\* handler (lines 390-421). An exception raised by the read of self.services
\* leaves start at once; _http_server.listen binds the port or raises
\* socket.error, which leaves start after the route table and the Application
\* have been built: `ports` holds TRUE if the port can be free and FALSE if it
\* can be taken.
Start(cs, ports) ==
    /\ calls < MaxCalls
    /\ pc \in {"idle", "running"}
    /\ ~ already_started(_ioloop)
    /\ starts' = starts + 1
    /\ custom_settings' = cs
    /\ LET g == _get_services
       IN  /\ Read(g)
           /\ IF g.raised
              THEN /\ startError' = g.disc.error
                   /\ UNCHANGED <<toplevel_handlers, _handlers, app_settings,
                                  listens, sigterm_handler, pc, termSeen>>
              ELSE /\ toplevel_handlers' = _setup_handlers(g.services.val)
                   /\ _handlers' = Some(toplevel_handlers')
                   /\ app_settings' = Some(start_settings(cs))
                   /\ \E bound \in ports :
                         IF bound
                         THEN /\ listens' = listens + 1
                              /\ sigterm_handler' = TRUE
                              /\ termSeen' = FALSE
                              /\ pc' = "installed"
                              /\ startError' = "none"
                         ELSE /\ startError' = "socket.error"
                              /\ UNCHANGED <<listens, sigterm_handler, pc, termSeen>>
    /\ UNCHANGED <<fs, _app_url_base, _ioloop, stop_requested, sigs>>
    /\ UNCHANGED <<logVars, nsVars, reqVars>>

\* self._ioloop = tornado.ioloop.IOLoop.instance()
RecordLoop ==
    /\ pc = "installed"
    /\ _ioloop' = Some("IOLoop")
    /\ pc' = "recorded"
    /\ UNCHANGED <<fs, _app_url_base, _services, toplevel_handlers, _handlers,
                   lastDisc, lastRead, firstRead, scans, initCalls, reads, calls>>
    /\ UNCHANGED <<stop_requested, sigterm_handler, listens, app_settings,
                   custom_settings, sigs, termSeen, starts, startError>>
    /\ UNCHANGED <<logVars, nsVars, reqVars>>

\* self._ioloop.start(): the loop runs, unless a stop is pending, in which
\* case IOLoop.start clears it and returns at once and start returns
\* (self._ioloop = None).
RunLoop ==
    /\ pc = "recorded"
    /\ IF stop_requested
       THEN /\ stop_requested' = FALSE
            /\ _ioloop' = None
            /\ pc' = "idle"
       ELSE /\ pc' = "running"
            /\ UNCHANGED <<stop_requested, _ioloop>>
    /\ UNCHANGED <<fs, _app_url_base, _services, toplevel_handlers, _handlers,
                   lastDisc, lastRead, firstRead, scans, initCalls, reads, calls>>
    /\ UNCHANGED <<sigterm_handler, listens, app_settings,
                   custom_settings, sigs, termSeen, starts, startError>>
    /\ UNCHANGED <<logVars, nsVars, reqVars>>

\* The running loop finds the stop pending: IOLoop.start clears it and
\* returns, and start returns (self._ioloop = None).
LoopReturn ==
    /\ pc = "running"
    /\ stop_requested
    /\ stop_requested' = FALSE
    /\ _ioloop' = None
    /\ pc' = "idle"
    /\ UNCHANGED <<fs, _app_url_base, _services, toplevel_handlers, _handlers,
                   lastDisc, lastRead, firstRead, scans, initCalls, reads, calls>>
    /\ UNCHANGED <<sigterm_handler, listens, app_settings,
                   custom_settings, sigs, termSeen, starts, startError>>
    /\ UNCHANGED <<logVars, nsVars, reqVars>>

\* KeyboardInterrupt raised out of the running loop: the except clause calls
\* self._ioloop.stop() on the loop that has already left IOLoop.start, which
\* leaves the stop pending, and start returns (self._ioloop = None).
KeyboardInterrupt ==
    /\ pc = "running"
    /\ stop_requested' = TRUE
    /\ _ioloop' = None
    /\ pc' = "idle"
    /\ UNCHANGED <<fs, _app_url_base, _services, toplevel_handlers, _handlers,
                   lastDisc, lastRead, firstRead, scans, initCalls, reads, calls>>
    /\ UNCHANGED <<sigterm_handler, listens, app_settings,
                   custom_settings, sigs, termSeen, starts, startError>>
    /\ UNCHANGED <<logVars, nsVars, reqVars>>

\* _sigterm_handler: SIGTERM delivered to the process once the handler is
\* installed; it runs between two statements of start or inside the loop.
\* if self._ioloop: self._ioloop.stop()
Sigterm ==
    /\ sigs < MaxSignals
    /\ sigterm_handler
    /\ sigs' = sigs + 1
    /\ termSeen' = (termSeen \/ pc # "idle")
    /\ stop_requested' = IF ~ _ioloop.isNone THEN TRUE ELSE stop_requested
    /\ UNCHANGED <<fs, _app_url_base, _services, _ioloop, toplevel_handlers, _handlers,
                   lastDisc, lastRead, firstRead, scans, initCalls, reads, calls>>
    /\ UNCHANGED <<pc, sigterm_handler, listens, app_settings,
                   custom_settings, starts, startError>>
    /\ UNCHANGED <<logVars, nsVars, reqVars>>

\* The administrator repairs the plugin in one directory after a scan has seen
\* it: the directory then holds a plugin that passes every step. One repair is
\* made between two scans (a repair before the first scan is another initial
\* state), and a repair made while start goes from line 421 to line 427, where
\* nothing reads the directory, is the repair made right after.
Repair ==
    /\ pc \in {"idle", "running"}
    /\ ~ lastDisc.isNone
    /\ lastDisc.val.fsys = fs
    /\ \E n \in DirNames :
          /\ fs[n] # GoodEntry
          /\ fs' = [fs EXCEPT ![n] = GoodEntry]
    /\ UNCHANGED <<_app_url_base, _services, _ioloop, toplevel_handlers, _handlers,
                   lastDisc, lastRead, firstRead, scans, initCalls, reads, calls>>
    /\ UNCHANGED <<startVars, logVars, nsVars, reqVars>>

NoRead == [raised |-> FALSE, list |-> <<>>]

\* The server after construction, over the services home fsys.
NewServer(fsys) ==
    /\ fs = fsys
    /\ _app_url_base = DefaultUrlBase
    /\ _services = None
    /\ _ioloop = None
    /\ toplevel_handlers = <<>>
    /\ _handlers = None
    /\ lastDisc = None
    /\ lastRead = NoRead
    /\ firstRead = None
    /\ scans = 0
    /\ initCalls = [n \in DirNames |-> 0]
    /\ reads = 0
    /\ calls = 0
    /\ pc = "idle"
    /\ stop_requested = FALSE
    /\ sigterm_handler = FALSE
    /\ listens = 0
    /\ app_settings = None
    /\ custom_settings = {}
    /\ sigs = 0
    /\ termSeen = FALSE
    /\ starts = 0
    /\ startError = "none"

InitApp == \E fsys \in [DirNames -> EntryCases] : NewServer(fsys)

IdleNs == nsIn = None /\ nsOut = None
IdleReq == req = None /\ resp = None

\* No request has completed.
IdleLog ==
    /\ _muted_requests = <<>>
    /\ flagOf = <<>>
    /\ lastReq = None
    /\ lastLog = <<>>
    /\ succeeded = {}
    /\ nreq = 0

Init == InitApp /\ IdleLog /\ IdleNs /\ IdleReq

\* The server as websvcd.py runs it: start({}) on a free port, stopped by an
\* interrupt.
Next ==
    \/ ReadServices
    \/ Start(LauncherSettings, {TRUE})
    \/ StartAlreadyStarted
    \/ RecordLoop
    \/ RunLoop
    \/ KeyboardInterrupt
    \/ Repair

Spec == Init /\ [][Next]_vars

(***************************************************************************)
(* start with any custom settings and the termination signal, over         *)
(* services homes whose plugins load, fail to import or lack the route     *)
(* table.                                                                  *)
(***************************************************************************)
StartEntries ==
    { GoodEntry,
      [GoodEntry EXCEPT !.imports = "ImportError"],
      [GoodEntry EXCEPT !.hasMapping = FALSE] }

InitStart ==
    /\ \E fsys \in [DirNames -> StartEntries] : NewServer(fsys)
    /\ IdleLog /\ IdleNs /\ IdleReq

NextStart ==
    \/ \E cs \in CustomSettings : Start(cs, BOOLEAN)
    \/ StartAlreadyStarted
    \/ RecordLoop
    \/ RunLoop
    \/ LoopReturn
    \/ KeyboardInterrupt
    \/ Sigterm

SpecStart == InitStart /\ [][NextStart]_vars

(***************************************************************************)
(* Route namespacing on its own: one rule of one plugin, for every base,   *)
(* plugin name and local pattern within the bounds.                        *)
(***************************************************************************)
Seqs(S, n) == UNION { [1..k -> S] : k \in 0..n }

BaseChars == {"/", "a"}
RouteChars == {"/", "a", "("}

\* A server that has not been used, over a directory of valid plugins.
InitAppIdle == NewServer([n \in DirNames |-> GoodEntry]) /\ IdleLog

InitRoute ==
    /\ InitAppIdle
    /\ IdleReq
    /\ nsIn \in { Some([base |-> b, name |-> n, route |-> r]) :
                    b \in Seqs(BaseChars, MaxBaseLen), n \in DirNames,
                    r \in Seqs(RouteChars, MaxRouteLen) }
    /\ nsOut = None

\* The expansion of the one-rule route table of plugin nsIn.name.
NamespaceRoute ==
    /\ nsOut.isNone
    /\ nsOut' = Some(expand_rules(nsIn.val.base, nsIn.val.name,
                                  << <<nsIn.val.route, "Handler">> >>, <<>>))
    /\ UNCHANGED <<nsIn, appVars, startVars, logVars, reqVars>>

NextRoute == NamespaceRoute

SpecRoute == InitRoute /\ [][NextRoute]_vars

(***************************************************************************)
(* The discovery over plugins that declare any local pattern: the plugins *)
(* "a" and "h" have a route table of one rule each, "_d" has the table of  *)
(* GoodEntry.                                                              *)
(***************************************************************************)
\* A valid plugin whose route table is the one rule for `route`.
OneRuleEntry(route) == [GoodEntry EXCEPT !.mapping = << <<route, "Handler">> >>]

InitTables ==
    /\ \E ra, rh \in Seqs(RouteChars, MaxRouteLen) :
          NewServer([n \in DirNames |->
                        IF n = <<"a">> THEN OneRuleEntry(ra)
                        ELSE IF n = <<"h">> THEN OneRuleEntry(rh)
                        ELSE GoodEntry])
    /\ IdleLog /\ IdleNs /\ IdleReq

NextTables == ReadServices

SpecTables == InitTables /\ [][NextTables]_vars

(***************************************************************************)
(* WSHandler: one request through a verb method and the dispatch wrapper.  *)
(* A response body is the sequence of the chunks written; a chunk is a     *)
(* dictionary, which the HTTP layer sends as one JSON object.              *)
(***************************************************************************)
\* The exceptions a verb method can raise. tornado.web.HTTPError carries
\* status_code and log_message; URLError has a `reason` attribute.
NoReason == [isNone |-> TRUE, val |-> ""]
HTTPErrors ==
    { [cls |-> "HTTPError", status_code |-> c, message |-> m, reason |-> NoReason] :
        c \in {403, 404, 410}, m \in {"not found", "gone"} }
OtherErrors ==
    { [cls |-> "ValueError", status_code |-> 0, message |-> "boom", reason |-> NoReason],
      [cls |-> "KeyError", status_code |-> 0, message |-> "'k'", reason |-> NoReason],
      [cls |-> "URLError", status_code |-> 0, message |-> "<urlopen error>",
       reason |-> [isNone |-> FALSE, val |-> "unreachable"]] }
NoExc == [cls |-> "none", status_code |-> 0, message |-> "", reason |-> NoReason]

\* What a verb method writes.
Chunks == { {<<"a", "1">>}, {<<"message", "Hello World">>} }

\* A verb method of a handler class: it may call set_status, writes up to
\* MaxWrites chunks, then returns or raises.
NoStatus == [isNone |-> TRUE, val |-> 0]
Methods ==
    { [set_status |-> st, writes |-> w, raises |-> e # NoExc, exc |-> e] :
        st \in {NoStatus, [isNone |-> FALSE, val |-> 201], [isNone |-> FALSE, val |-> 404]},
        w \in Seqs(Chunks, MaxWrites),
        e \in HTTPErrors \cup OtherErrors \cup {NoExc} }

\* The verbs WSHandler dispatches, and the handler classes of a request: a
\* class of a plugin, whose verb method is any of Methods, WSHandler itself
\* and the handler of the fallback route.
Verbs == {"GET", "POST", "PUT", "DELETE"}
HandlerClasses == {"Plugin", "WSHandler", "InvalidRequest"}

\* reply_not_implemented(): set_status(501) and the message written.
reply_not_implemented ==
    [ set_status |-> [isNone |-> FALSE, val |-> 501],
      writes     |-> << { <<"message", "not yet implemented">> } >>,
      raises     |-> FALSE,
      exc        |-> NoExc ]

\* WSHandler.do_get, do_post, do_put, do_delete
WSHandler_do(verb) == reply_not_implemented

\* AppServer.InvalidRequest: do_get sets the status 404, do_post calls do_get,
\* and the other verb methods are those inherited from WSHandler.
InvalidRequest_do(verb) ==
    IF verb \in {"GET", "POST"}
    THEN [ set_status |-> [isNone |-> FALSE, val |-> 404], writes |-> <<>>,
           raises |-> FALSE, exc |-> NoExc ]
    ELSE WSHandler_do(verb)

\* The verb method self.do_<verb> of the handler object of the request r.
do_method(r) ==
    IF r.cls = "InvalidRequest" THEN InvalidRequest_do(r.verb)
    ELSE IF r.cls = "WSHandler" THEN WSHandler_do(r.verb)
    ELSE r.method

\* A handler object at the start of a request (RequestHandler.clear()).
NewHandler(logger) ==
    [status |-> 200, buffer |-> <<>>, logger |-> logger, logged |-> 0]

set_status(h, code) == [h EXCEPT !.status = code]
write(h, chunk) == [h EXCEPT !.buffer = Append(@, chunk)]
log_call(h) == IF h.logger THEN [h EXCEPT !.logged = @ + 1] ELSE h

RECURSIVE write_all(_, _)
write_all(h, chunks) ==
    IF chunks = <<>> THEN h ELSE write_all(write(h, Head(chunks)), Tail(chunks))

\* The handler after the statements of the verb method that precede its
\* return or raise.
run_method(h, m) ==
    write_all(IF m.set_status.isNone THEN h ELSE set_status(h, m.set_status.val),
              m.writes)

\* The class test that never holds: the mutant of is_http_error.
is_http_error_never(e) == FALSE

\* isinstance(e, tornado.web.HTTPError)
is_http_error(e) == e.cls = "HTTPError"

\* exception_reply(e): two log calls if a logger is attached, status 500 and
\* the errtype/message/additInfos dictionary written to the response.
exception_reply(h, e) ==
    LET h1 == log_call(log_call(h))
        data == { <<"errtype", e.cls>>,
                  <<"message", e.message>>,
                  <<"additInfos", IF e.reason.isNone THEN "" ELSE e.reason.val>> }
    IN  write(set_status(h1, 500), data)

\* write_error(status_code, exc_info)
write_error(h, status_code, e) ==
    IF is_http_error(e)
    THEN set_status(write(h, { <<"message", e.message>> }), status_code)
    ELSE exception_reply(h, e)

\* _process_request(method): the handler afterwards, and whether the
\* exception left the wrapper.
_process_request(h, m) ==
    LET h1 == run_method(h, m)
    IN  IF ~ m.raises THEN [h |-> h1, raised |-> FALSE]
        ELSE LET h2 == log_call(h1)
             IN  IF is_http_error(m.exc) THEN [h |-> h2, raised |-> TRUE]
                 ELSE [h |-> exception_reply(h2, m.exc), raised |-> FALSE]

\* The HTTP layer on an exception that leaves the verb method, before any
\* header was sent: the response is reset and write_error is called with the
\* status code of the error.
send_error(h, e) ==
    write_error([h EXCEPT !.status = 200, !.buffer = <<>>], e.status_code, e)

InitHandler ==
    /\ InitAppIdle
    /\ IdleNs
    /\ req \in { Some([cls |-> "Plugin", verb |-> v, logger |-> l, method |-> m]) :
                     v \in {"GET"}, l \in BOOLEAN, m \in Methods }
               \cup { Some([cls |-> "WSHandler", verb |-> v, logger |-> l,
                            method |-> reply_not_implemented]) :
                         v \in Verbs, l \in BOOLEAN }
               \cup { Some([cls |-> "InvalidRequest", verb |-> v, logger |-> FALSE,
                            method |-> reply_not_implemented]) : v \in Verbs }
    /\ resp = None

\* One request: get/post/put/delete pass the verb method to
\* _process_request; the response is finished when they return or raise.
Dispatch ==
    /\ resp.isNone
    /\ LET m == do_method(req.val)
           r == _process_request(NewHandler(req.val.logger), m)
           h == IF r.raised THEN send_error(r.h, m.exc) ELSE r.h
       IN  resp' = Some([status |-> h.status, body |-> h.buffer,
                         propagated |-> r.raised, logged |-> h.logged])
    /\ UNCHANGED <<req, appVars, startVars, logVars, nsVars>>

NextHandler == Dispatch

SpecHandler == InitHandler /\ [][NextHandler]_vars

(***************************************************************************)
(* AppServer._log_request: the log function of the Application, called     *)
(* with the handler of every completed request.                            *)
(***************************************************************************)
\* Request URIs, the final statuses of a handler (handler.get_status()) and
\* what a handler class has as disable_request_logging: True, False or no
\* such attribute.
URIs == {"/api/a/x", "/api/h/y"}
Statuses == {200, 399, 400, 499, 500, 503}
Flags == {"True", "False", "absent"}

\* The membership test that never holds: the mutant of muted_contains.
muted_contains_never(muted, key) == FALSE

\* key in self._muted_requests
muted_contains(muted, key) == \E i \in 1..Len(muted) : muted[i] = key

\* The flag taken as set for every handler: the mutant of dont_log.
dont_log_always(flag) == TRUE

\* try: dont_log = handler.disable_request_logging
\* except AttributeError: dont_log = False
dont_log(flag) == flag = "True"

\* The levels with the first limit one too high: the mutant of log_method.
log_method_off_by_one(status) ==
    IF status < 401 THEN "info" ELSE IF status < 500 THEN "warning" ELSE "error"

\* log_method: self._logger.info below 400, .warning below 500, .error above.
log_method(status) ==
    IF status < 400 THEN "info" ELSE IF status < 500 THEN "warning" ELSE "error"

\* The two kinds of lines _log_request writes.
MutedLine == [level |-> "warning", line |-> "muted"]
RequestLine(status) == [level |-> log_method(status), line |-> "request"]

\* _log_request(handler): the list _muted_requests afterwards and the lines
\* logged, for a handler with the given URI, flag and status.
_log_request(muted, uri, flag, status) ==
    IF status < 400 /\ muted_contains(muted, uri)
    THEN [muted |-> muted, log |-> <<>>]
    ELSE IF status < 400 /\ dont_log(flag)
    THEN [muted |-> Append(muted, uri), log |-> <<MutedLine, RequestLine(status)>>]
    ELSE [muted |-> muted, log |-> <<RequestLine(status)>>]

\* A request completes and the Application calls its log function.
LogRequest ==
    /\ nreq < MaxRequests
    /\ \E uri \in URIs, status \in Statuses :
          LET r == _log_request(_muted_requests, uri, flagOf[uri], status)
          IN  /\ _muted_requests' = r.muted
              /\ lastLog' = r.log
              /\ lastReq' = Some([uri |-> uri, status |-> status])
              /\ succeeded' = IF status < 400 THEN succeeded \cup {uri} ELSE succeeded
    /\ nreq' = nreq + 1
    /\ UNCHANGED <<flagOf, appVars, startVars, nsVars, reqVars>>

\* Each URI is routed to one handler class, flagged or not.
InitLog ==
    /\ NewServer([n \in DirNames |-> GoodEntry])
    /\ IdleNs /\ IdleReq
    /\ _muted_requests = <<>>
    /\ flagOf \in [URIs -> Flags]
    /\ lastReq = None
    /\ lastLog = <<>>
    /\ succeeded = {}
    /\ nreq = 0

NextLog == LogRequest

SpecLog == InitLog /\ [][NextLog]_vars

(***************************************************************************)
(* Properties of the discovery. D is the last run of _discover_services    *)
(* and F the services home as that run saw it.                             *)
(***************************************************************************)
Ran == ~ lastDisc.isNone
D == lastDisc.val.run
F == lastDisc.val.fsys

Range(seq) == { seq[i] : i \in 1..Len(seq) }
ServiceNames(services) == { services[i].name : i \in 1..Len(services) }

\* The directory holds both marker files.
Candidate(fsys, n) ==
    /\ fsys[n].isdir
    /\ MANIFEST_FILE_NAME \in fsys[n].files
    /\ INIT_PY \in fsys[n].files

\* The manifest lacks the `service` section or its `label` key.
BadManifest(fsys, n) == ~ fsys[n].section \/ ~ fsys[n].hasLabel

\* The URL the namespace convention prescribes for a base with at most one
\* trailing separator and a local route with at most one leading separator.
DropLast(s) == IF s # <<>> /\ s[Len(s)] = SLASH THEN SubSeq(s, 1, Len(s) - 1) ELSE s
DropFirst(s) == IF s # <<>> /\ s[1] = SLASH THEN Tail(s) ELSE s
ExpectedUrl(b, n, r) == DropLast(b) \o <<SLASH>> \o n \o <<SLASH>> \o DropFirst(r)

\* Some route of the plugin does not compile once namespaced.
HasBadRoute(fsys, n) ==
    \E i \in 1..Len(fsys[n].mapping) :
        ~ re_compile_ok(ExpectedUrl(_app_url_base, n, fsys[n].mapping[i][1]))

\* A plugin that passes every step of the discovery.
Valid(fsys, n) ==
    /\ Candidate(fsys, n)
    /\ ~ BadManifest(fsys, n)
    /\ fsys[n].imports = "ok"
    /\ ~ InitRaises(fsys[n].init)
    /\ fsys[n].hasMapping
    /\ ~ HasBadRoute(fsys, n)

StartsWith(s, p) == Len(s) >= Len(p) /\ SubSeq(s, 1, Len(p)) = p

\* The subdirectory that follows n in ascending order, if any, was analysed.
NextAnalysed(n) ==
    \A m \in subdirs(F) :
        (StrLess(n, m) /\ ~ \E k \in subdirs(F) : StrLess(n, k) /\ StrLess(k, m))
            => m \in Range(D.analysed)

\* C1: a plugin directory whose MANIFEST lacks the `label` key (or the whole
\* `service` section) is left out of the discovered list and logged, and the
\* discovery goes on without raising: with every other plugin valid, the run
\* returns exactly the descriptors of the valid plugins.
C1_BadManifestExcluded ==
    Ran =>
        \A n \in DirNames :
            ( /\ Candidate(F, n) /\ BadManifest(F, n)
              /\ \A m \in DirNames \ {n} : Candidate(F, m) => Valid(F, m) )
            => /\ D.error = "none"
               /\ n \in D.logged
               /\ ServiceNames(D.services) = { m \in DirNames : Valid(F, m) }

LoadFails(n) ==
    /\ Candidate(F, n)
    /\ \/ F[n].imports = "ImportError"
       \/ F[n].imports = "ok" /\ ~ F[n].hasMapping /\ F[n].init # "ValueError"

HookRaised(n) ==
    /\ InitRaises(F[n].init)
    /\ \E i \in 1..Len(D.inits) : D.inits[i][1] = n

\* C3: if the _init_ hook of a plugin raises, whatever the class of the
\* exception, the failure is logged, the plugin is not in the list and
\* the run does not raise from that plugin.
C3_InitFailureContained ==
    Ran =>
        \A n \in DirNames :
            HookRaised(n) =>
                /\ n \in D.logged
                /\ n \notin ServiceNames(D.services)
                /\ D.at # n

\* The run reached the route expansion of n and one of its patterns did not
\* compile.
RouteFailed(n) ==
    /\ n \in Range(D.analysed)
    /\ Candidate(F, n) /\ ~ BadManifest(F, n)
    /\ F[n].imports = "ok" /\ ~ InitRaises(F[n].init) /\ F[n].hasMapping
    /\ HasBadRoute(F, n)

\* The URL prefix of the plugin n.
NsPrefix(n) == DropLast(_app_url_base) \o <<SLASH>> \o n \o <<SLASH>>

\* C4: if one route pattern of a plugin fails to compile after namespacing,
\* the whole plugin is skipped: it has no descriptor in the list, no route
\* with its prefix is in any descriptor or in the merged route table, the run
\* does not raise from it and goes on with the next directory.
C4_BadRouteSkipsPlugin ==
    Ran =>
        \A n \in DirNames :
            RouteFailed(n) =>
                /\ n \notin ServiceNames(D.services)
                /\ n \in D.skipped
                /\ D.at # n
                /\ NextAnalysed(n)
                /\ \A i \in 1..Len(D.services) :
                       \A j \in 1..Len(D.services[i].handlers) :
                           ~ StartsWith(D.services[i].handlers[j][1], NsPrefix(n))
                /\ (~ _handlers.isNone /\ ~ _services.isNone) =>
                       \A i \in 1..Len(_handlers.val) :
                           ~ StartsWith(_handlers.val[i][1], NsPrefix(n))

\* C4 witness: a plugin with a pattern that does not compile was skipped, the
\* run returned the two other plugins and start merged their routes.
C4_Witness ==
    /\ Ran
    /\ \E n \in DirNames : RouteFailed(n) /\ \E m \in DirNames : StrLess(n, m)
    /\ D.error = "none"
    /\ Len(D.services) = 2
    /\ ~ _handlers.isNone

\* C5: every descriptor of a returned list names a directory that holds both
\* MANIFEST and __init__.py, and the descriptors are in strictly ascending
\* order of directory name.
C5_MarkersAndOrder ==
    (Ran /\ D.error = "none") =>
        /\ \A i \in 1..Len(D.services) :
               LET n == D.services[i].name
               IN  /\ n \in DirNames
                   /\ F[n].isdir
                   /\ MANIFEST_FILE_NAME \in F[n].files
                   /\ INIT_PY \in F[n].files
        /\ \A i, j \in 1..Len(D.services) :
               i < j => StrLess(D.services[i].name, D.services[j].name)

\* C5 witness: a returned list of two descriptors, the third directory having
\* been discarded for a missing marker file.
C5_Witness ==
    /\ Ran
    /\ D.error = "none"
    /\ Len(D.services) = 2
    /\ D.discarded # {}

\* C6 as stated: the scan runs at most once, and once a read has returned a
\* list every read returns that list.
C6_ScanAtMostOnce ==
    /\ scans <= 1
    /\ ~ firstRead.isNone => (~ lastRead.raised /\ lastRead.list = firstRead.val)

\* C6 (amended): a read runs the scan only while no list is cached, so a scan
\* that raised is run again by the next read; the first list returned comes
\* from a scan, and from then on no read of `services` and no call to start
\* runs the scan, and every read returns that first list (also an empty one).
C6_ScanUntilCached ==
    [][ /\ (firstRead.isNone /\ ~ firstRead'.isNone) => scans' = scans + 1
        /\ ~ firstRead.isNone =>
               /\ scans' = scans
               /\ ~ lastRead'.raised
               /\ lastRead'.list = firstRead.val
               /\ _services' = Some(firstRead.val)
        /\ scans' # scans => _services.isNone ]_vars

\* C6 witness: an empty list was cached by the only scan and read again after
\* the directory had changed.
C6_Witness ==
    /\ ~ firstRead.isNone
    /\ firstRead.val = <<>>
    /\ reads >= 2
    /\ scans = 1
    /\ fs # F

\* C7 as stated: over any sequence of reads and starts the _init_ hook of each
\* plugin is invoked at most once in total.
C7_InitAtMostOnceEver == \A n \in DirNames : initCalls[n] <= 1

\* C7 (amended): in each run of the scan the _init_ hook of each plugin is
\* invoked at most once, exactly once for every plugin of the returned list
\* that exposes a callable _init_, and never when _init_ is absent or not
\* callable; a run that raised is repeated by the next read, which invokes the
\* hooks again; once a list is cached no hook is invoked any more.
C7_InitOncePerScan ==
    /\ [](Ran =>
            \A n \in DirNames :
                /\ CountInits(D.inits, n) <= 1
                /\ (D.error = "none" /\ n \in ServiceNames(D.services)
                        /\ F[n].init = "returns") => CountInits(D.inits, n) = 1
                /\ F[n].init \in {"absent", "notcallable"} => CountInits(D.inits, n) = 0)
    /\ [][ /\ ~ _services.isNone => initCalls' = initCalls
           /\ \A n \in DirNames : initCalls'[n] <= initCalls[n] + 1 ]_vars

\* C7 witness: a hook was invoked in two scans, the second of which returned
\* the list that is cached.
C7_Witness ==
    /\ scans = 2
    /\ reads = 2
    /\ ~ _services.isNone
    /\ \E n \in DirNames : initCalls[n] = 2 /\ n \in ServiceNames(_services.val)

(***************************************************************************)
(* Properties of the route namespacing.                                    *)
(***************************************************************************)
\* The base has at most one trailing separator and the local route at most
\* one leading separator.
AtMostOneTrailing(b) == Len(b) >= 2 => ~ (b[Len(b)] = SLASH /\ b[Len(b) - 1] = SLASH)
AtMostOneLeading(r) == Len(r) >= 2 => ~ (r[1] = SLASH /\ r[2] = SLASH)

\* C8: for every plugin name N, every base B with or without a trailing '/'
\* and every local route R with or without one leading '/', the effective
\* route stored for the rule is B without its trailing '/', '/', N, '/', R
\* without its leading '/'.
C8_OneSeparatorPerJoin ==
    (~ nsOut.isNone /\ nsOut.val.ok
        /\ AtMostOneTrailing(nsIn.val.base) /\ AtMostOneLeading(nsIn.val.route))
    => /\ Len(nsOut.val.handlers) = 1
       /\ nsOut.val.handlers[1][1] =
              ExpectedUrl(nsIn.val.base, nsIn.val.name, nsIn.val.route)

\* C8 witness: a base with a trailing '/' and a local route with a leading
\* '/' were joined.
C8_Witness ==
    /\ ~ nsOut.isNone
    /\ nsOut.val.ok
    /\ nsIn.val.base = <<"/", "a", "/">>
    /\ nsIn.val.route = <<"/", "a">>
    /\ nsOut.val.handlers[1][1] = <<"/", "a", "/">> \o nsIn.val.name \o <<"/", "a">>

(***************************************************************************)
(* Properties of the request dispatch.                                     *)
(***************************************************************************)
\* The request was served by a verb method of a plugin's handler class.
PluginRequest == ~ resp.isNone /\ req.val.cls = "Plugin"

\* C9: when the verb method raises an HTTPError with status S and message M,
\* _process_request re-raises it and the response has status S and the body
\* {"message": M}, never the errtype/message/additInfos envelope.
C9_HttpErrorPassedThrough ==
    (PluginRequest /\ req.val.method.raises /\ req.val.method.exc.cls = "HTTPError")
    => /\ resp.val.propagated
       /\ resp.val.status = req.val.method.exc.status_code
       /\ resp.val.body = << { <<"message", req.val.method.exc.message>> } >>

\* C9 witness: an HTTPError 404 raised by a method that had set a status and
\* written a chunk.
C9_Witness ==
    /\ PluginRequest
    /\ req.val.method.exc.cls = "HTTPError"
    /\ req.val.method.exc.status_code = 404
    /\ req.val.method.writes # <<>>
    /\ ~ req.val.method.set_status.isNone
    /\ resp.val.status = 404

\* The envelope of exception_reply for the error e.
Envelope(e) ==
    { <<"errtype", e.cls>>, <<"message", e.message>>,
      <<"additInfos", IF e.reason.isNone THEN "" ELSE e.reason.val>> }

\* C10: when the verb method raises an error that is not an HTTPError, the
\* error does not leave the wrapper, the status is 500 and the body is the
\* one JSON object errtype/message/additInfos, whatever the method had set
\* or written before it raised.
C10_UnexpectedErrorEnvelope ==
    (PluginRequest /\ req.val.method.raises /\ req.val.method.exc.cls # "HTTPError")
    => /\ ~ resp.val.propagated
       /\ resp.val.status = 500
       /\ resp.val.body = << Envelope(req.val.method.exc) >>

(***************************************************************************)
(* Properties of start.                                                    *)
(***************************************************************************)
\* The routes of the descriptors of a list, in the order of the list.
RoutesOf(services) == extend_all(<<>>, services)

\* The number of fallback entries of a route table.
RECURSIVE CountFallback(_)
CountFallback(handlers) ==
    IF handlers = <<>> THEN 0
    ELSE (IF Head(handlers) = fallback_handlers[1] THEN 1 ELSE 0)
             + CountFallback(Tail(handlers))

\* C11: every route table assembled by start is the built-in top-level routes
\* (none are declared), then the routes of each discovered service in
\* discovery order, then the fallback route, which so occurs exactly once and
\* as the last entry; this holds for every assembly, not only the first.
C11_RouteTableOrder ==
    ~ _handlers.isNone =>
        /\ ~ _services.isNone
        /\ _handlers.val = RoutesOf(_services.val) \o fallback_handlers
        /\ CountFallback(_handlers.val) = 1
        /\ _handlers.val[Len(_handlers.val)] = fallback_handlers[1]

\* C12: a request that matches only the fallback route, which is served by
\* InvalidRequest, gets status 404 when its verb is GET, POST or DELETE.
C12_FallbackNotFound ==
    (~ resp.isNone /\ req.val.cls = "InvalidRequest"
        /\ req.val.verb \in {"GET", "POST", "DELETE"})
    => resp.val.status = 404

\* C13: a call to start on a server whose event loop is recorded fails at
\* once with the already-started RuntimeError: no discovery runs, no route
\* table is assembled, no port is bound, and the cached services, the route
\* table and the running loop are left as they were.
C13_AlreadyStartedRefused ==
    [][ (starts' = starts + 1 /\ ~ _ioloop.isNone) =>
            /\ startError' = "RuntimeError"
            /\ scans' = scans
            /\ initCalls' = initCalls
            /\ listens' = listens
            /\ _services' = _services
            /\ toplevel_handlers' = toplevel_handlers
            /\ _handlers' = _handlers
            /\ app_settings' = app_settings
            /\ _ioloop' = _ioloop
            /\ pc' = pc
            /\ stop_requested' = stop_requested ]_vars

\* C13 witness: start was refused while the loop was running.
C13_Witness ==
    /\ pc = "running"
    /\ ~ _ioloop.isNone
    /\ startError = "RuntimeError"
    /\ starts = 2
    /\ listens = 1

(***************************************************************************)
(* Properties of the request logging.                                      *)
(***************************************************************************)
\* The number of lines of a log that satisfy the test `level, line`.
CountLines(log, level, line) ==
    Cardinality({ i \in 1..Len(log) : log[i].level = level /\ log[i].line = line })

\* C14: for a handler flagged with disable_request_logging, the first
\* successful (status < 400) request for a URI is logged with exactly one
\* info-level request line and exactly one warning that the URI is muted, and
\* every later successful request for that URI logs nothing.
C14_MutedAfterFirstSuccess ==
    [][ (nreq' = nreq + 1 /\ lastReq'.val.status < 400
            /\ flagOf[lastReq'.val.uri] = "True") =>
        IF lastReq'.val.uri \notin succeeded
        THEN /\ Len(lastLog') = 2
             /\ CountLines(lastLog', "info", "request") = 1
             /\ CountLines(lastLog', "warning", "muted") = 1
        ELSE lastLog' = <<>> ]_vars

\* C14 witness: the third request, a successful one for the muted URI of a
\* flagged handler, logged nothing.
C14_Witness ==
    /\ nreq = 3
    /\ ~ lastReq.isNone
    /\ lastReq.val.status = 200
    /\ flagOf[lastReq.val.uri] = "True"
    /\ muted_contains(_muted_requests, lastReq.val.uri)
    /\ lastLog = <<>>

\* C15: every completed request with final status >= 400 is logged, muted
\* URI or not, flagged handler or not, with one request line at warning level
\* for 400-499 and at error level for 500 and above; and every request line
\* logged for a status below 400 is at info level.
C15_FailuresAlwaysLogged ==
    ~ lastReq.isNone =>
        LET status == lastReq.val.status
        IN  /\ status >= 400 =>
                lastLog = << [level |-> IF status < 500 THEN "warning" ELSE "error",
                              line  |-> "request"] >>
            /\ status < 400 =>
                \A i \in 1..Len(lastLog) :
                    lastLog[i].line = "request" => lastLog[i].level = "info"

\* C15 witness: a request with status 400 for a muted URI of a flagged
\* handler was logged at warning level.
C15_Witness ==
    /\ ~ lastReq.isNone
    /\ lastReq.val.status = 400
    /\ flagOf[lastReq.val.uri] = "True"
    /\ muted_contains(_muted_requests, lastReq.val.uri)
    /\ lastLog = << [level |-> "warning", line |-> "request"] >>

\* C16: once start has installed the SIGTERM handler, a termination signal
\* delivered at any later point of start (before the loop is recorded, before
\* it is started, or while it runs) stops the loop: as long as start has not
\* returned, the signal has left a stop pending on the loop, which makes
\* IOLoop.start return and start return normally.
C16_TermSignalStops ==
    (pc # "idle" /\ termSeen) => stop_requested

\* The keys of a dictionary, and the settings the server sets by itself.
Keys(d) == { p[1] : p \in d }
ServerSettings == { <<"debug", _debug>>, <<"log_function", LOG_REQUEST>> }

\* C17 as stated: for every key of the custom_settings passed to start the
\* settings handed to the Application hold the caller's value, and the keys
\* the caller does not supply keep the server's value.
C17_CallerSettingsWin ==
    ~ app_settings.isNone =>
        /\ custom_settings \subseteq app_settings.val
        /\ \A p \in ServerSettings :
               p[1] \notin Keys(custom_settings) => p \in app_settings.val

\* C17 (amended): for every key of custom_settings other than `log_function`
\* the settings handed to the Application hold the caller's value;
\* `log_function` is always the server's _log_request, also when the caller
\* supplies one; `debug` keeps the server's value when the caller does not
\* supply it; and the settings hold no other key.
C17_CallerSettingsWinButLog ==
    ~ app_settings.isNone =>
        /\ \A p \in custom_settings :
               p[1] # "log_function" => p \in app_settings.val
        /\ <<"log_function", LOG_REQUEST>> \in app_settings.val
        /\ "debug" \notin Keys(custom_settings)
               => <<"debug", _debug>> \in app_settings.val
        /\ Keys(app_settings.val) = Keys(custom_settings) \cup {"debug", "log_function"}
        /\ Cardinality(app_settings.val) = Cardinality(Keys(app_settings.val))

\* C17 witness: the caller supplied debug, gzip and log_function; the
\* Application got the caller's debug and gzip and the server's log function.
C17_Witness ==
    /\ ~ app_settings.isNone
    /\ Keys(custom_settings) = {"debug", "gzip", "log_function"}
    /\ app_settings.val = { <<"debug", "custom">>, <<"gzip", "custom">>,
                            <<"log_function", LOG_REQUEST>> }

\* The number of separators a route begins with, and the route without them.
LeadingSlashes(r) ==
    CHOOSE k \in 0..Len(r) :
        /\ \A i \in 1..k : r[i] = SLASH
        /\ k = Len(r) \/ r[k + 1] # SLASH
WithoutLeading(r) == SubSeq(r, LeadingSlashes(r) + 1, Len(r))
EndsWith(s, p) == Len(s) >= Len(p) /\ SubSeq(s, Len(s) - Len(p) + 1, Len(s)) = p

\* The effective route stored for the one rule of nsIn.
NsUrl == nsOut.val.handlers[1][1]
NsDone == ~ nsOut.isNone /\ nsOut.val.ok

\* C18 as stated: at most one leading '/' of the local route is stripped
\* before the prefix '<base>/<plugin>/' is prepended, so that a route that
\* begins with k >= 2 separators keeps k - 1 of them.
C18_StripsAtMostOne ==
    NsDone =>
        LET rest == DropFirst(nsIn.val.route)
        IN  /\ EndsWith(NsUrl, <<SLASH>> \o nsIn.val.name \o <<SLASH>> \o rest)
            /\ Len(NsUrl) = Len(rstrip(nsIn.val.base, SLASH)) + Len(nsIn.val.name)
                                + 2 + Len(rest)

\* C18 (amended): every leading '/' of the local route is stripped before the
\* prefix '<base>/<plugin>/' is prepended: a route that begins with k >= 1
\* separators keeps none of them after the prefix.
C18_StripsEveryLeading ==
    NsDone =>
        LET rest == WithoutLeading(nsIn.val.route)
        IN  /\ EndsWith(NsUrl, <<SLASH>> \o nsIn.val.name \o <<SLASH>> \o rest)
            /\ Len(NsUrl) = Len(rstrip(nsIn.val.base, SLASH)) + Len(nsIn.val.name)
                                + 2 + Len(rest)
            /\ rest = <<>> \/ rest[1] # SLASH

\* C18 witness: the local route //a of a plugin under the base /a/ became
\* /a/<plugin>/a.
C18_Witness ==
    /\ NsDone
    /\ nsIn.val.base = <<"/", "a", "/">>
    /\ nsIn.val.route = <<"/", "/", "a">>
    /\ NsUrl = <<"/", "a", "/">> \o nsIn.val.name \o <<"/", "a">>

\* The server has been listening and start has returned.
Stopped == pc = "idle" /\ listens >= 1

\* C19: the lifecycle only moves forward through created, discovering,
\* routes-assembled, listening, stopped: once the server has been listening
\* and has stopped, no call to start assembles a route table, binds the port
\* or records a loop again.
C19_LifecycleForwardOnly ==
    [][ Stopped =>
            /\ pc' = "idle"
            /\ toplevel_handlers' = toplevel_handlers
            /\ _handlers' = _handlers
            /\ listens' = listens
            /\ _ioloop' = _ioloop ]_vars

\* C20: the settings passed to the _init_ hook of a plugin are exactly the
\* entries written in the `settings` section of its manifest, no more and no
\* fewer, and None when the manifest has no such section; and a plugin is
\* never skipped for a missing `settings` section.
C20_SettingsVerbatim ==
    Ran =>
        /\ \A i \in 1..Len(D.inits) :
               D.inits[i][2] = F[D.inits[i][1]].settings
        /\ \A n \in DirNames :
               (Valid(F, n) /\ F[n].settings.isNone /\ D.error = "none")
                   => n \in ServiceNames(D.services)

(***************************************************************************)
(* Properties of the discovered list over any local patterns.              *)
(***************************************************************************)
\* The effective patterns of a descriptor.
PatternsOf(service) == { service.handlers[j][1] : j \in 1..Len(service.handlers) }

\* C21: in a discovered list, no effective pattern of a descriptor is an
\* effective pattern of the descriptor of another plugin, whatever local
\* patterns the plugins declare, identical ones included.
C21_NoClashAcrossPlugins ==
    (Ran /\ D.error = "none") =>
        \A i, j \in 1..Len(D.services) :
            i # j => PatternsOf(D.services[i]) \cap PatternsOf(D.services[j]) = {}

\* C21 witness: the plugins "a" and "h" declare the same local pattern /a,
\* which "_d" declares too, and the three are in the list.
C21_Witness ==
    /\ Ran
    /\ D.error = "none"
    /\ Len(D.services) = 3
    /\ F[<<"a">>].mapping = << << <<"/", "a">>, "Handler" >> >>
    /\ F[<<"h">>].mapping = F[<<"a">>].mapping
    /\ \A i \in 1..3 : PatternsOf(D.services[i]) # {}

\* C22: over any sequence of completed requests the mute set only grows: no
\* URI is ever removed from it, a URI is added only by a successful
\* (status < 400) request whose handler is flagged, and that URI is the
\* request's; and no URI is in it twice.
C22_MuteSetGrowsOnly ==
    /\ [](\A i, j \in 1..Len(_muted_requests) :
              i # j => _muted_requests[i] # _muted_requests[j])
    /\ [][ /\ Len(_muted_requests') >= Len(_muted_requests)
           /\ SubSeq(_muted_requests', 1, Len(_muted_requests)) = _muted_requests
           /\ _muted_requests' # _muted_requests =>
                  /\ _muted_requests' = Append(_muted_requests, lastReq'.val.uri)
                  /\ lastReq'.val.status < 400
                  /\ flagOf[lastReq'.val.uri] = "True" ]_vars

\* C22 witness: both URIs are muted and the third request, a successful one
\* for a muted URI, left the mute set as it was.
C22_Witness ==
    /\ nreq = 3
    /\ Len(_muted_requests) = 2
    /\ lastReq.val.status < 400
    /\ lastLog = <<>>

\* C23: if the discovery run by start aborts with an ImportError or an
\* AttributeError, start raises that error and has assembled no route table,
\* built no Application, bound no port, installed no signal handler and
\* recorded no loop, and the discovery cache is still unset: the server is
\* as it was before start was called.
C23_FatalDiscoveryLeavesUnstarted ==
    [][ (starts' = starts + 1 /\ scans' = scans + 1
            /\ lastDisc'.val.run.error \in {"ImportError", "AttributeError"}) =>
            /\ startError' = lastDisc'.val.run.error
            /\ _services'.isNone
            /\ _handlers'.isNone
            /\ toplevel_handlers' = <<>>
            /\ app_settings'.isNone
            /\ listens' = 0
            /\ ~ sigterm_handler'
            /\ _ioloop'.isNone
            /\ pc' = "idle" ]_vars

\* C23 witness: two calls to start have each run the discovery, which built a
\* descriptor and then raised AttributeError, and the server is not started.
C23_Witness ==
    /\ starts = 2
    /\ scans = 2
    /\ startError = "AttributeError"
    /\ Ran /\ Len(D.services) >= 1
    /\ _services.isNone
    /\ _handlers.isNone
    /\ pc = "idle"
====
